---- MODULE Spec2Model ----
(***************************************************************************)
(* DVR face recognition system: the SQLite visit store (database.py), the  *)
(* recognition / notification loop (main.py), the notifier (notifier.py)   *)
(* and the dashboard request handlers (web/app.py), as one state machine.  *)
(*                                                                         *)
(* Conventions                                                             *)
(*  - A face embedding is a point on a line; face_distance is the norm of  *)
(*    the difference, |a - b|, in units of 1/DistScale.                    *)
(*  - A saved image is represented by the embedding of the face it shows.  *)
(*  - Python's None is None (0) where an id is expected (row ids start at  *)
(*    1, and run() tests ids for truthiness) and NoneStr for a string.     *)
(*  - Timestamp columns that no operation of the model reads back          *)
(*    (first_seen, last_seen, created_at) are left out of the rows.        *)
(***************************************************************************)
EXTENDS Integers, Sequences, FiniteSets, TLC

\* ------------------------------------------------------------------ bounds
MaxPersonSeq == 2
MaxDetections == 3
MaxLogged == 2
MaxTicks == 2
MaxEnc == 14
MaxSends == 3
MaxCalls == 3
MaxFeedSends == 102
StartTime == 1000

\* ------------------------------------------------------- program constants
None == 0
CooldownSeconds == 300
UnknownCooldownSeconds == 60
Tolerance == 6
DistScale == 10
MaxWebNotifications == 100
MaxReconnectAttempts == 5

NoneStr == "<None>"
NameList == <<"Alice", "Bob", "Carol">>
Names == {NameList[1], NameList[2]}
Encodings == 0..MaxEnc
FrameFaces == {0, MaxEnc \div 2, MaxEnc}
Steps == {10, CooldownSeconds + 1}
Requests == {1, 2}
Outcomes == {"ok", "http_error", "exception"}

VARIABLES
    persons,            \* table persons: id -> row
    personSeq,          \* AUTOINCREMENT sequence of persons
    visits,             \* table visits: id -> row
    visitSeq,           \* AUTOINCREMENT sequence of visits
    unknown_visitors,   \* table unknown_visitors: id -> row
    unknownSeq,         \* AUTOINCREMENT sequence of unknown_visitors
    known_faces,        \* FaceRecognitionSystem.known_faces
    last_seen,          \* FaceRecognitionSystem.last_seen
    pending,            \* persons returned by process_frame, not yet handled by run
    now,                \* time.time()
    ticks,              \* number of clock advances so far
    detections,         \* history: what run did for each detection
    cfg,                \* Notifier toggles and credentials
    web_notifications,  \* Notifier.web_notifications, newest first
    feedFile,           \* data/notifications.json
    lastSend,           \* outcome of the last send_notification call
    sends,              \* number of send_notification calls so far
    reqs,               \* in-flight POST /api/unknown/<id>/identify requests
    lastOp,             \* the last store call of a dashboard request and its result
    stats,              \* the last answer of get_statistics
    dvr,                \* DVRConnector: the capture handle and the call in progress
    proc,               \* the main process: where main / run stand
    config,             \* config/config.json, the stored configuration document
    response            \* the last answer of GET /api/config

storeVars == <<persons, personSeq, visits, visitSeq, unknown_visitors, unknownSeq>>
loopVars == <<known_faces, last_seen, pending, detections>>
clockVars == <<now, ticks>>
notifierVars == <<cfg, web_notifications, feedFile, lastSend, sends>>
connVars == <<dvr, proc>>
webVars == <<config, response>>
vars == <<persons, personSeq, visits, visitSeq, unknown_visitors, unknownSeq,
          known_faces, last_seen, pending, now, ticks, detections,
          cfg, web_notifications, feedFile, lastSend, sends, reqs, lastOp, stats,
          dvr, proc, config, response>>

\* ------------------------------------------------------------------ helpers
Abs(x) == IF x < 0 THEN -x ELSE x

Extend(f, k, v) == [x \in DOMAIN f \cup {k} |-> IF x = k THEN v ELSE f[x]]

Restrict(f, S) == [x \in S |-> f[x]]

Op(op, ok, status) == [op |-> op, ok |-> ok, status |-> status]

\* ============================================================== database.py

\* persons.name is declared TEXT NOT NULL UNIQUE: an INSERT or UPDATE giving
\* a row the name of another row raises sqlite3.IntegrityError.
NameTaken_Mut(name, self) == FALSE
NameTaken(name, self) ==
    \E p \in DOMAIN persons : p # self /\ persons[p].name = name

\* Database.add_person: one INSERT, committed; on IntegrityError nothing is
\* committed and None is returned.
DbAddPersonOk_Mut(name) == TRUE
DbAddPersonOk(name) == ~NameTaken(name, None)

PersonsAfterAdd(name, enc, notes) ==
    IF DbAddPersonOk(name)
    THEN Extend(persons, personSeq + 1,
                [name |-> name, face_encoding |-> enc, visit_count |-> 0, notes |-> notes])
    ELSE persons

SeqAfterAdd(name) == IF DbAddPersonOk(name) THEN personSeq + 1 ELSE personSeq

RetAfterAdd(name) == IF DbAddPersonOk(name) THEN personSeq + 1 ELSE None

\* Database.update_person: UPDATE name (when name is truthy), then UPDATE notes
\* (when notes is not None), one commit; IntegrityError rolls both back.
DbUpdatePersonOk(id, name) ==
    ~(name # "" /\ id \in DOMAIN persons /\ NameTaken(name, id))

PersonsAfterUpdate(id, name, notes) ==
    IF DbUpdatePersonOk(id, name) /\ id \in DOMAIN persons
    THEN [persons EXCEPT ![id] =
            [@ EXCEPT !.name = IF name # "" THEN name ELSE @,
                      !.notes = IF notes # NoneStr THEN notes ELSE @]]
    ELSE persons

\* Database.delete_person: DELETE FROM visits WHERE person_id = ?, then
\* DELETE FROM persons WHERE id = ?, one commit.  No connection of the
\* program issues PRAGMA foreign_keys = ON, so SQLite enforces neither the
\* REFERENCES clauses nor ON DELETE CASCADE.
VisitsAfterDelete_Mut(id) == visits
VisitsAfterDelete(id) ==
    Restrict(visits, {v \in DOMAIN visits : visits[v].person_id # id})

PersonsAfterDelete(id) == Restrict(persons, DOMAIN persons \ {id})

\* Database.log_visit: INSERT INTO visits, then UPDATE persons SET
\* visit_count = visit_count + 1 WHERE id = ?, one commit.  With foreign keys
\* off the INSERT succeeds whether or not the person row exists.
VisitsAfterLog(id, confidence) ==
    Extend(visits, visitSeq + 1, [person_id |-> id, confidence |-> confidence])

CountAfterLog_Mut(count) == count
CountAfterLog(count) == count + 1

PersonsAfterLog(id) ==
    IF id \in DOMAIN persons
    THEN [persons EXCEPT ![id].visit_count = CountAfterLog(@)]
    ELSE persons

\* Database.log_unknown_visitor: INSERT INTO unknown_visitors (image_path).
UnknownAfterLog(image) ==
    Extend(unknown_visitors, unknownSeq + 1,
           [image |-> image, identified |-> FALSE, identified_as |-> None])

\* Database.get_unknown_visitors(identified = False): the unresolved rows.
GetUnknownVisitors == {u \in DOMAIN unknown_visitors : ~unknown_visitors[u].identified}

\* Database.mark_unknown_as_identified: UPDATE ... WHERE id = ?.
UnknownAfterMark(uid, pid) ==
    IF uid \in DOMAIN unknown_visitors
    THEN [unknown_visitors EXCEPT ![uid] = [@ EXCEPT !.identified = TRUE, !.identified_as = pid]]
    ELSE unknown_visitors

\* Database.get_statistics.  The most frequent visitor is the first row of
\* SELECT ... ORDER BY visit_count DESC LIMIT 1: SQLite scans persons in
\* rowid order (no index covers visit_count) into a sorter that keeps the
\* earlier of two rows with equal keys, so of the rows with the greatest
\* visit_count the one with the least id comes first.
TopRow_Mut(rows) ==
    CHOOSE p \in rows : \A q \in rows :
        persons[p].visit_count > persons[q].visit_count
        \/ (persons[p].visit_count = persons[q].visit_count /\ p >= q)
TopRow(rows) ==
    CHOOSE p \in rows : \A q \in rows :
        persons[p].visit_count > persons[q].visit_count
        \/ (persons[p].visit_count = persons[q].visit_count /\ p <= q)

MostFrequentVisitor ==
    IF DOMAIN persons = {}
    THEN [name |-> NoneStr, count |-> 0]
    ELSE [name |-> persons[TopRow(DOMAIN persons)].name,
          count |-> persons[TopRow(DOMAIN persons)].visit_count]

Statistics ==
    [total_persons |-> Cardinality(DOMAIN persons),
     total_visits |-> Cardinality(DOMAIN visits),
     unknown_visitors |-> Cardinality(GetUnknownVisitors),
     most_frequent_visitor |-> MostFrequentVisitor]

\* ================================================================== main.py

\* face_recognition.face_distance: the norm of the difference of two embeddings.
FaceDistance(a, b) == Abs(a - b)

\* face_recognition.compare_faces(known, enc, tolerance): distance <= tolerance.
CompareFaces_Mut(known, enc, tol) ==
    [i \in 1..Len(known) |-> FaceDistance(known[i].encoding, enc) < tol]
CompareFaces(known, enc, tol) ==
    [i \in 1..Len(known) |-> FaceDistance(known[i].encoding, enc) <= tol]

\* np.argmin: the first index holding the least value.
ArgMin(d) ==
    CHOOSE i \in 1..Len(d) :
        /\ \A j \in 1..Len(d) : d[i] <= d[j]
        /\ \A j \in 1..(i - 1) : d[j] > d[i]

UnknownFace(enc) ==
    [name |-> "Unknown", person_id |-> None, confidence |-> 0, image |-> enc]

\* process_frame, lines 83-106: the record built for one detected face.
MatchFace(known, enc, tol) ==
    IF Len(known) > 0
    THEN LET matches == CompareFaces(known, enc, tol)
         IN  IF \E i \in 1..Len(known) : matches[i]
             THEN LET face_distances == [i \in 1..Len(known) |-> FaceDistance(known[i].encoding, enc)]
                      best_match_index == ArgMin(face_distances)
                  IN  IF matches[best_match_index]
                      THEN [name |-> known[best_match_index].name,
                            person_id |-> known[best_match_index].id,
                            confidence |-> DistScale - face_distances[best_match_index],
                            image |-> enc]
                      ELSE UnknownFace(enc)
             ELSE UnknownFace(enc)
    ELSE UnknownFace(enc)

\* Database.get_all_persons orders by name; NameList is that order.
NamesPresent(ps) ==
    SelectSeq(NameList, LAMBDA n : \E p \in DOMAIN ps : ps[p].name = n)

\* load_known_faces: one entry per person row, in get_all_persons order.
LoadKnownFaces(ps) ==
    [i \in 1..Len(NamesPresent(ps)) |->
        LET p == CHOOSE q \in DOMAIN ps : ps[q].name = NamesPresent(ps)[i]
        IN  [encoding |-> ps[p].face_encoding, name |-> ps[p].name, id |-> p]]

\* should_notify: the value returned ...
LastTime(person_id) == IF person_id \in DOMAIN last_seen THEN last_seen[person_id] ELSE 0

ShouldNotify_Mut(person_id, cooldown_seconds) ==
    IF person_id = None
    THEN TRUE
    ELSE now - LastTime(person_id) >= cooldown_seconds
ShouldNotify(person_id, cooldown_seconds) ==
    IF person_id = None
    THEN TRUE
    ELSE now - LastTime(person_id) > cooldown_seconds

\* ... and last_seen after the call.
LastSeenAfter_Mut(person_id, cooldown_seconds) == last_seen
LastSeenAfter(person_id, cooldown_seconds) ==
    IF person_id # None /\ ShouldNotify(person_id, cooldown_seconds)
    THEN Extend(last_seen, person_id, now)
    ELSE last_seen

\* ============================================================== notifier.py

\* _store_web_notification: insert at the front, keep the first
\* max_web_notifications entries.
StoreWeb_Mut(n) == <<n>> \o web_notifications
StoreWeb(n) ==
    LET l == <<n>> \o web_notifications
    IN  IF Len(l) > MaxWebNotifications THEN SubSeq(l, 1, MaxWebNotifications) ELSE l

\* _store_web_notification, lines 88-93: the write of the feed file is inside
\* try / except Exception, which prints and returns.
FileWriteRaises(fileOk) == FALSE

\* _send_email_notification, lines 100-145: one requests.post inside
\* try / except Exception; a status other than 202 is printed.
EmailRaises_Mut(out) == out = "exception"
EmailRaises(out) == FALSE

EmailAttempts(out) == 1

\* _send_telegram_notification, lines 152-187: one requests.post inside
\* try / except Exception; a status other than 200 is printed.
TelegramRaises(out) == FALSE

TelegramAttempts(out) == 1

\* An outbound HTTP call that never receives a response.
NoResponse == "no_response"

Answers == Outcomes \cup {NoResponse}

\* requests.post(url, ...), lines 137, 168 and 179, is given no timeout: it
\* comes back only with the server's answer or with a connection error.
PostReturns(out) == out # NoResponse

NoSend ==
    [console |-> FALSE, stored |-> FALSE, written |-> FALSE, fileFailed |-> FALSE,
     emailAttempts |-> 0, emailOut |-> "none",
     telegramAttempts |-> 0, telegramOut |-> "none", raised |-> FALSE,
     blocked |-> FALSE]

\* send_notification, lines 40-65, for an enabled notifier: what the call did,
\* an exception leaving a step ending the call there.
SendOutcome(fileOk, emailOut, tgOut) ==
    LET r1 == FileWriteRaises(fileOk)
        emailTried == ~r1 /\ cfg.email_enabled /\ cfg.email_creds
        emailBlocks == emailTried /\ ~PostReturns(emailOut)
        r2 == r1 \/ (emailTried /\ ~emailBlocks /\ EmailRaises(emailOut))
        tgTried == ~r2 /\ ~emailBlocks /\ cfg.telegram_enabled /\ cfg.telegram_creds
        tgBlocks == tgTried /\ ~PostReturns(tgOut)
        r3 == r2 \/ (tgTried /\ ~tgBlocks /\ TelegramRaises(tgOut))
    IN  [console |-> TRUE, stored |-> TRUE, written |-> fileOk, fileFailed |-> ~fileOk,
         emailAttempts |-> IF emailTried THEN EmailAttempts(emailOut) ELSE 0,
         emailOut |-> IF emailTried THEN emailOut ELSE "none",
         telegramAttempts |-> IF tgTried THEN TelegramAttempts(tgOut) ELSE 0,
         telegramOut |-> IF tgTried THEN tgOut ELSE "none",
         raised |-> r3,
         blocked |-> emailBlocks \/ tgBlocks]

\* send_notification(title, ...) with the environment's answers: whether the
\* feed file can be written, and how each outbound HTTP call ends.
SendNotification(title, fileOk, emailOut, tgOut) ==
    /\ sends' = sends + 1
    /\ cfg' = cfg
    /\ IF ~cfg.enabled
       THEN /\ lastSend' = NoSend
            /\ UNCHANGED <<web_notifications, feedFile>>
       ELSE /\ lastSend' = SendOutcome(fileOk, emailOut, tgOut)
            /\ web_notifications' = StoreWeb([title |-> title, timestamp |-> now])
            /\ feedFile' = IF fileOk THEN StoreWeb([title |-> title, timestamp |-> now])
                           ELSE feedFile

\* ========================================================= dvr_connector.py

\* How one connection attempt of connect ends: a test frame was read, the
\* capture did not open, it opened but gave no frame, or an exception was
\* raised.
AttemptOutcomes == {"ok", "unopened", "noframe", "exception"}

\* How cap.read() in get_frame ends.
ReadOutcomes == {"frame", "noframe", "exception"}

\* DVRConnector.__init__, lines 14-18, before its call of connect.
NewDvr ==
    [cap |-> "none", reconnect_attempts |-> 0, pc |-> "idle", site |-> "none",
     tries |-> 0, result |-> "none", ret |-> "none", calls |-> 0]

\* A connector whose capture is open and which is in no call.
ConnectedDvr == [NewDvr EXCEPT !.cap = "open"]

\* connect is entered from `site`: the constructor (line 19), the entry of
\* get_frame (line 88) or its retry after a failed read (line 97).
ConnectCalled(d, site) ==
    [d EXCEPT !.pc = "connect", !.site = site, !.tries = 0, !.result = "none"]

\* connect, line 63: another attempt is made after a failed one.
RetryAllowed_Mut(attempts) == attempts <= MaxReconnectAttempts
RetryAllowed(attempts) == attempts < MaxReconnectAttempts

\* self.cap after an attempt: the old capture is released (line 43) and a new
\* one is created (line 46), which is open or not.
CapAfterAttempt(d, out) ==
    CASE out \in {"ok", "noframe"} -> "open"
      [] out = "unopened" -> "closed"
      [] OTHER -> IF d.cap = "none" THEN "none" ELSE "closed"

\* connect returns `result` to the site that called it.
ConnectReturns(d, result) ==
    CASE d.site = "init" ->
            [d EXCEPT !.pc = "idle", !.result = result]
      [] d.site = "entry" ->
            IF result = "True"
            THEN [d EXCEPT !.pc = "read", !.result = result]
            ELSE [d EXCEPT !.pc = "idle", !.result = result, !.ret = "None"]
      [] OTHER ->
            IF result = "True"
            THEN [d EXCEPT !.pc = "reread", !.result = result]
            ELSE [d EXCEPT !.pc = "idle", !.result = result, !.ret = "None"]

\* connect, lines 40-82: one attempt and what follows it.
AfterAttempt_Mut(d, out) ==
    LET e == [d EXCEPT !.cap = CapAfterAttempt(d, out), !.tries = @ + 1]
    IN  CASE out = "ok" -> ConnectReturns([e EXCEPT !.reconnect_attempts = 0], "True")
          [] out = "exception" -> ConnectReturns(e, "False")
          [] OTHER ->
                IF RetryAllowed(d.reconnect_attempts + 1)
                THEN [e EXCEPT !.reconnect_attempts = @ + 1]
                ELSE ConnectReturns([e EXCEPT !.reconnect_attempts = 0], "False")
AfterAttempt(d, out) ==
    LET e == [d EXCEPT !.cap = CapAfterAttempt(d, out), !.tries = @ + 1]
    IN  CASE out = "ok" -> ConnectReturns([e EXCEPT !.reconnect_attempts = 0], "True")
          [] out = "exception" -> ConnectReturns(e, "False")
          [] OTHER ->
                IF RetryAllowed(d.reconnect_attempts + 1)
                THEN [e EXCEPT !.reconnect_attempts = @ + 1]
                ELSE ConnectReturns([e EXCEPT !.reconnect_attempts = @ + 1], "False")

\* get_frame, lines 91-108: the value returned when a read raises.
AfterReadException == "None"

\* release, lines 130-134.
Released_Mut(d) == d
Released(d) == IF d.cap # "none" THEN [d EXCEPT !.cap = "none"] ELSE d

\* is_connected.
IsConnected(d) == d.cap = "open"

\* ====================================================== web/app.py, config

\* A JSON configuration document: its leaves, each under its path of keys.
SecretPaths ==
    { <<"dvr", "password">>,
      <<"notifications", "email", "sendgrid_api_key">>,
      <<"notifications", "telegram", "bot_token">> }

PublicPaths ==
    { <<"dvr", "ip">>,
      <<"notifications", "enabled">>,
      <<"notifications", "email", "to_email">>,
      <<"notifications", "telegram", "chat_id">> }

Secrets == {"hunter2", "Tr0ub4dor"}

PublicValue(path) == path[Len(path)]

\* key in d, for the dictionary found under `prefix`.
HasKey(doc, prefix) ==
    \E path \in DOMAIN doc :
        Len(path) >= Len(prefix) /\ SubSeq(path, 1, Len(prefix)) = prefix

\* d.pop(key, None), for the leaf under `path`.
Pop_Mut(doc, path) == doc
Pop(doc, path) == [q \in DOMAIN doc \ {path} |-> doc[q]]

\* get_config, lines 220-227: the sensitive keys are removed.
Redact(doc) ==
    LET d1 == IF HasKey(doc, <<"dvr">>) THEN Pop(doc, <<"dvr", "password">>) ELSE doc
        d2 == IF HasKey(d1, <<"notifications">>) /\ HasKey(d1, <<"notifications", "email">>)
              THEN Pop(d1, <<"notifications", "email", "sendgrid_api_key">>)
              ELSE d1
        d3 == IF HasKey(d2, <<"notifications">>) /\ HasKey(d2, <<"notifications", "telegram">>)
              THEN Pop(d2, <<"notifications", "telegram", "bot_token">>)
              ELSE d2
    IN  d3

NoAnswer == [status |-> 0, body |-> <<>>]

\* =========================================================== main.py, main

\* The process inside run's loop.
RunningProc ==
    [pc |-> "loop", running |-> TRUE, blocked |-> FALSE, exit |-> "none",
     caught |-> 0, again |-> FALSE]

\* The process at the start of main.
StartingProc == [RunningProc EXCEPT !.pc = "start", !.running = FALSE]

\* run, lines 215-220: where the loop stands after an exception of `kind`
\* raised inside an iteration.
LoopAfter_Mut(kind) == "left"
LoopAfter(kind) == IF kind = "KeyboardInterrupt" THEN "left" ELSE "loop"

\* ------------------------------------------------------------------ actions

\* The clock advances.  The clock read that decides is should_notify's: an
\* advance between process_frame and it is the same as one before the frame.
Tick(d) ==
    /\ ticks < MaxTicks
    /\ pending = <<>>
    /\ now' = now + d
    /\ ticks' = ticks + 1
    /\ UNCHANGED <<storeVars, loopVars, notifierVars, reqs, lastOp, stats>>
    /\ UNCHANGED <<connVars, webVars>>

\* run, lines 168-179: a frame showing the faces `faces` is processed.
ProcessFrame(faces) ==
    /\ proc.pc = "loop" /\ ~proc.blocked
    /\ pending = <<>>
    /\ Len(detections) + Len(faces) <= MaxDetections
    /\ visitSeq + unknownSeq < MaxLogged
    /\ pending' = [i \in 1..Len(faces) |-> MatchFace(known_faces, faces[i], Tolerance)]
    /\ UNCHANGED <<storeVars, known_faces, last_seen, detections, clockVars,
                   notifierVars, reqs, lastOp, stats>>
    /\ UNCHANGED <<connVars, webVars>>

Detection(person, notified) ==
    [person_id |-> person.person_id, time |-> now,
     visits |-> IF notified /\ person.person_id # None THEN 1 ELSE 0,
     unknowns |-> IF notified /\ person.person_id = None THEN 1 ELSE 0,
     notifications |-> IF notified THEN 1 ELSE 0]

\* run, lines 181-210: the next person of the frame is handled.  `record`
\* says whether the history of detections is kept.
HandlePerson(record, fileOk, emailOut, tgOut) ==
    /\ proc.pc = "loop" /\ ~proc.blocked
    /\ pending # <<>>
    /\ LET person == Head(pending)
           known == person.person_id # None
           cooldown == IF known THEN CooldownSeconds ELSE UnknownCooldownSeconds
           arg == IF known THEN person.person_id ELSE None
           notified == ShouldNotify(arg, cooldown)
       IN  /\ last_seen' = LastSeenAfter(arg, cooldown)
           /\ detections' = IF record THEN Append(detections, Detection(person, notified))
                            ELSE detections
           /\ IF notified
              THEN /\ IF known
                      THEN /\ visits' = VisitsAfterLog(person.person_id, person.confidence)
                           /\ visitSeq' = visitSeq + 1
                           /\ persons' = PersonsAfterLog(person.person_id)
                           /\ UNCHANGED <<unknown_visitors, unknownSeq>>
                      ELSE /\ unknown_visitors' = UnknownAfterLog(person.image)
                           /\ unknownSeq' = unknownSeq + 1
                           /\ UNCHANGED <<persons, visits, visitSeq>>
                   /\ SendNotification(person.name, fileOk, emailOut, tgOut)
                   \* a call that does not come back keeps the loop inside it; an
                   \* exception leaving send_notification ends the iteration
                   /\ proc' = [proc EXCEPT !.blocked = lastSend'.blocked]
                   /\ pending' = IF lastSend'.blocked THEN pending
                                  ELSE IF lastSend'.raised THEN <<>> ELSE Tail(pending)
              ELSE /\ pending' = Tail(pending)
                   /\ UNCHANGED <<persons, visits, visitSeq, unknown_visitors, unknownSeq,
                                  notifierVars, proc>>
    /\ UNCHANGED <<personSeq, known_faces, clockVars, reqs, lastOp, stats>>
    /\ UNCHANGED <<dvr, webVars>>

\* reload_known_faces.
ReloadKnownFaces ==
    /\ pending = <<>>
    /\ known_faces' = LoadKnownFaces(persons)
    /\ UNCHANGED <<storeVars, last_seen, pending, detections, clockVars,
                   notifierVars, reqs, lastOp, stats>>
    /\ UNCHANGED <<connVars, webVars>>

\* POST /api/person (app.py add_person).
ApiAddPerson(name, faces, notes) ==
    /\ personSeq < MaxPersonSeq
    /\ IF name = "" \/ faces = <<>>
       THEN /\ lastOp' = Op("add_person", FALSE, 400)
            /\ UNCHANGED <<persons, personSeq>>
       ELSE /\ persons' = PersonsAfterAdd(name, faces[1], notes)
            /\ personSeq' = SeqAfterAdd(name)
            /\ lastOp' = Op("add_person", DbAddPersonOk(name),
                            IF DbAddPersonOk(name) THEN 200 ELSE 500)
    /\ UNCHANGED <<visits, visitSeq, unknown_visitors, unknownSeq, loopVars, clockVars,
                   notifierVars, reqs, stats>>
    /\ UNCHANGED <<connVars, webVars>>

\* PUT /api/person/<id> (app.py update_person).
ApiUpdatePerson(id, name, notes) ==
    /\ persons' = PersonsAfterUpdate(id, name, notes)
    /\ lastOp' = Op("update_person", DbUpdatePersonOk(id, name),
                    IF DbUpdatePersonOk(id, name) THEN 200 ELSE 500)
    /\ UNCHANGED <<personSeq, visits, visitSeq, unknown_visitors, unknownSeq, loopVars,
                   clockVars, notifierVars, reqs, stats>>
    /\ UNCHANGED <<connVars, webVars>>

\* DELETE /api/person/<id> (app.py delete_person).
ApiDeletePerson(id) ==
    /\ visits' = VisitsAfterDelete(id)
    /\ persons' = PersonsAfterDelete(id)
    /\ lastOp' = Op("delete_person", TRUE, 200)
    /\ UNCHANGED <<personSeq, visitSeq, unknown_visitors, unknownSeq, loopVars,
                   clockVars, notifierVars, reqs, stats>>
    /\ UNCHANGED <<connVars, webVars>>

IdleRequest ==
    [pc |-> "idle", unknown_id |-> None, name |-> "", notes |-> "", image |-> 0,
     person_id |-> None, status |-> 0]

\* POST /api/unknown/<id>/identify, lines 171-185: the name is checked and the
\* sighting is looked up among the unresolved ones.
IdentifyStart(r, uid, name, notes) ==
    /\ reqs[r].pc \in {"idle", "done"}
    /\ reqs' = [reqs EXCEPT ![r] =
          IF name = ""
          THEN [IdleRequest EXCEPT !.pc = "done", !.unknown_id = uid, !.status = 400]
          ELSE IF uid \notin GetUnknownVisitors
          THEN [IdleRequest EXCEPT !.pc = "done", !.unknown_id = uid, !.name = name,
                                   !.status = 404]
          ELSE [IdleRequest EXCEPT !.pc = "found", !.unknown_id = uid, !.name = name,
                                   !.notes = notes, !.image = unknown_visitors[uid].image]]
    /\ UNCHANGED <<storeVars, loopVars, clockVars, notifierVars, lastOp, stats>>
    /\ UNCHANGED <<connVars, webVars>>

\* identify_unknown, lines 188-198 and 207-208: the embedding is extracted
\* from the stored image and db.add_person is called (its own transaction).
IdentifyAdd(r, faceFound) ==
    /\ reqs[r].pc = "found"
    /\ personSeq < MaxPersonSeq
    /\ IF ~faceFound
       THEN /\ reqs' = [reqs EXCEPT ![r].pc = "done", ![r].status = 400]
            /\ UNCHANGED <<persons, personSeq, lastOp>>
       ELSE /\ persons' = PersonsAfterAdd(reqs[r].name, reqs[r].image, reqs[r].notes)
            /\ personSeq' = SeqAfterAdd(reqs[r].name)
            /\ lastOp' = Op("add_person", DbAddPersonOk(reqs[r].name),
                            IF DbAddPersonOk(reqs[r].name) THEN 0 ELSE 500)
            /\ reqs' = [reqs EXCEPT ![r] =
                  IF DbAddPersonOk(reqs[r].name)
                  THEN [@ EXCEPT !.pc = "added", !.person_id = RetAfterAdd(reqs[r].name)]
                  ELSE [@ EXCEPT !.pc = "done", !.status = 500]]
    /\ UNCHANGED <<visits, visitSeq, unknown_visitors, unknownSeq, loopVars, clockVars,
                   notifierVars, stats>>
    /\ UNCHANGED <<connVars, webVars>>

\* identify_unknown, lines 199-206: db.mark_unknown_as_identified (a second
\* transaction), then the success response.
IdentifyMark(r) ==
    /\ reqs[r].pc = "added"
    /\ unknown_visitors' = UnknownAfterMark(reqs[r].unknown_id, reqs[r].person_id)
    /\ lastOp' = Op("mark_unknown_as_identified", TRUE, 200)
    /\ reqs' = [reqs EXCEPT ![r].pc = "done", ![r].status = 200]
    /\ UNCHANGED <<persons, personSeq, visits, visitSeq, unknownSeq, loopVars, clockVars,
                   notifierVars, stats>>
    /\ UNCHANGED <<connVars, webVars>>

\* GET /api/stats.
GetStatistics ==
    /\ stats' = Statistics
    /\ UNCHANGED <<storeVars, loopVars, clockVars, notifierVars, reqs, lastOp>>
    /\ UNCHANGED <<connVars, webVars>>

\* A direct call of Notifier.send_notification.
Send(title, fileOk, emailOut, tgOut) ==
    /\ sends < MaxSends
    /\ SendNotification(title, fileOk, emailOut, tgOut)
    /\ UNCHANGED <<storeVars, loopVars, clockVars, reqs, lastOp, stats>>
    /\ UNCHANGED <<connVars, webVars>>

\* The n-th call of send_notification, for the event titled n.
NotifyEvent(fileOk) ==
    /\ sends < MaxFeedSends
    /\ SendNotification(sends + 1, fileOk, "ok", "ok")
    /\ UNCHANGED <<storeVars, loopVars, clockVars, reqs, lastOp, stats, connVars, webVars>>

\* One connection attempt of a connect call in progress ends as `out`.
DvrAttempt(out) ==
    /\ dvr.pc = "connect"
    /\ dvr' = AfterAttempt(dvr, out)
    /\ UNCHANGED <<storeVars, loopVars, clockVars, notifierVars, reqs, lastOp, stats,
                   proc, webVars>>

\* run, line 168: get_frame is called; lines 86-89 decide whether to connect.
GetFrame ==
    /\ proc.pc = "loop" /\ ~proc.blocked
    /\ dvr.pc = "idle"
    /\ dvr.calls < MaxCalls
    /\ dvr' = IF IsConnected(dvr)
              THEN [dvr EXCEPT !.pc = "read", !.ret = "none", !.calls = @ + 1]
              ELSE ConnectCalled([dvr EXCEPT !.ret = "none", !.calls = @ + 1], "entry")
    /\ UNCHANGED <<storeVars, loopVars, clockVars, notifierVars, reqs, lastOp, stats,
                   proc, webVars>>

\* get_frame, lines 92-98 and 104-108: the read of a frame.
DvrRead(out) ==
    /\ dvr.pc = "read"
    /\ dvr' = CASE out = "frame" -> [dvr EXCEPT !.pc = "idle", !.ret = "frame"]
                [] out = "noframe" -> ConnectCalled(dvr, "retry")
                [] OTHER -> [dvr EXCEPT !.pc = "idle", !.ret = AfterReadException]
    /\ UNCHANGED <<storeVars, loopVars, clockVars, notifierVars, reqs, lastOp, stats,
                   proc, webVars>>

\* get_frame, lines 100-108: the read after a reconnect.
DvrReread(out) ==
    /\ dvr.pc = "reread"
    /\ dvr' = CASE out = "frame" -> [dvr EXCEPT !.pc = "idle", !.ret = "frame"]
                [] out = "noframe" -> [dvr EXCEPT !.pc = "idle", !.ret = "None"]
                [] OTHER -> [dvr EXCEPT !.pc = "idle", !.ret = AfterReadException]
    /\ UNCHANGED <<storeVars, loopVars, clockVars, notifierVars, reqs, lastOp, stats,
                   proc, webVars>>

\* GET /api/config (app.py get_config): the stored document is read and
\* answered without its sensitive keys.
GetConfig ==
    /\ response' = [status |-> 200, body |-> Redact(config)]
    /\ UNCHANGED <<storeVars, loopVars, clockVars, notifierVars, reqs, lastOp, stats,
                   connVars, config>>

\* POST /api/config (app.py update_config): the document is overwritten.
UpdateConfig(data) ==
    /\ config' = data
    /\ UNCHANGED <<storeVars, loopVars, clockVars, notifierVars, reqs, lastOp, stats,
                   connVars, response>>

\* main, lines 239-264, and __init__, lines 26-35: without a configuration
\* file the process exits; with one, DVRConnector is created and connects.
MainStart(configExists) ==
    /\ proc.pc = "start"
    /\ IF configExists
       THEN /\ proc' = [proc EXCEPT !.pc = "init"]
            /\ dvr' = ConnectCalled(NewDvr, "init")
       ELSE /\ proc' = [proc EXCEPT !.pc = "ended", !.exit = "sys_exit"]
            /\ dvr' = dvr
    /\ UNCHANGED <<storeVars, loopVars, clockVars, notifierVars, reqs, lastOp, stats,
                   webVars>>

\* __init__, lines 36-44, and main, lines 264-267: the rest of the
\* initialisation.  An exception leaves FaceRecognitionSystem() outside main's
\* try: the process ends, and the interpreter, shutting down, finalises the
\* connector (DVRConnector.__del__, lines 136-138).
MainInitRest(raises) ==
    /\ proc.pc = "init"
    /\ IF raises
       THEN /\ proc' = [proc EXCEPT !.pc = "ended", !.exit = "init_error"]
            /\ dvr' = Released([dvr EXCEPT !.pc = "idle"])
       ELSE /\ dvr.pc = "idle"
            /\ proc' = [proc EXCEPT !.pc = "loop", !.running = TRUE]
            /\ dvr' = dvr
    /\ UNCHANGED <<storeVars, loopVars, clockVars, notifierVars, reqs, lastOp, stats,
                   webVars>>

\* run, lines 166-220: an exception of `kind` is raised inside the iteration
\* that got its answer from get_frame.
IterationRaises(kind) ==
    /\ proc.pc = "loop" /\ ~proc.blocked
    \* get_frame lets no Exception out; a KeyboardInterrupt passes through it
    /\ kind = "KeyboardInterrupt" \/ (dvr.pc = "idle" /\ dvr.ret # "none")
    /\ proc' = [proc EXCEPT !.pc = LoopAfter(kind),
                            !.caught = IF kind = "KeyboardInterrupt" THEN @ ELSE @ + 1,
                            !.exit = IF LoopAfter(kind) = "left" THEN kind ELSE @]
    /\ dvr' = [dvr EXCEPT !.pc = "idle", !.ret = "none"]
    /\ pending' = <<>>
    /\ UNCHANGED <<storeVars, known_faces, last_seen, detections, clockVars, notifierVars,
                   reqs, lastOp, stats, webVars>>

\* main, lines 268-271: run has returned or raised; finally calls stop, which
\* clears running and releases the connector (lines 222-227).
MainFinally ==
    /\ proc.pc = "left"
    /\ proc' = [proc EXCEPT !.pc = "ended", !.running = FALSE]
    /\ dvr' = Released(dvr)
    /\ UNCHANGED <<storeVars, loopVars, clockVars, notifierVars, reqs, lastOp, stats,
                   webVars>>

\* release is called once more on the ended process's connector (__del__).
ReleaseAgain ==
    /\ proc.pc = "ended" /\ proc.exit # "sys_exit"
    /\ ~proc.again
    /\ proc' = [proc EXCEPT !.again = TRUE]
    /\ dvr' = Released(dvr)
    /\ UNCHANGED <<storeVars, loopVars, clockVars, notifierVars, reqs, lastOp, stats,
                   webVars>>

\* ------------------------------------------------------------ specifications

Row(name, enc) == [name |-> name, face_encoding |-> enc, visit_count |-> 0, notes |-> ""]

\* The registries the store may hold when the loop process starts.
Registries ==
    { <<>>,
      <<Row(NameList[1], 0)>>,
      <<Row(NameList[1], 0), Row(NameList[2], MaxEnc)>> }

DefaultCfg ==
    [enabled |-> TRUE, email_enabled |-> FALSE, email_creds |-> FALSE,
     telegram_enabled |-> FALSE, telegram_creds |-> FALSE]

Configs ==
    [enabled : BOOLEAN, email_enabled : BOOLEAN, email_creds : BOOLEAN,
     telegram_enabled : BOOLEAN, telegram_creds : BOOLEAN]

InitRest ==
    /\ visits = <<>> /\ visitSeq = 0
    /\ unknown_visitors = <<>> /\ unknownSeq = 0
    /\ last_seen = <<>>
    /\ pending = <<>>
    /\ now = StartTime /\ ticks = 0
    /\ detections = <<>>
    /\ web_notifications = <<>> /\ feedFile = <<>>
    /\ lastSend = NoSend /\ sends = 0
    /\ reqs = [r \in Requests |-> IdleRequest]
    /\ lastOp = Op("none", TRUE, 0)
    /\ stats = [total_persons |-> 0, total_visits |-> 0, unknown_visitors |-> 0,
                most_frequent_visitor |-> [name |-> NoneStr, count |-> 0]]

\* A configuration document: any of the public leaves, and any of the
\* secret leaves with any secret value.
Docs ==
    UNION { { [q \in P \cup S |-> IF q \in S THEN sec[q] ELSE PublicValue(q)] :
                sec \in [S -> Secrets] } :
            P \in SUBSET PublicPaths, S \in SUBSET SecretPaths }

DefaultDoc ==
    [q \in PublicPaths \cup SecretPaths |->
        IF q \in SecretPaths THEN "hunter2" ELSE PublicValue(q)]

\* The loop process inside run, its connector connected.
InitConn == dvr = ConnectedDvr /\ proc = RunningProc

InitWeb == config = DefaultDoc /\ response = NoAnswer

\* FaceRecognitionSystem.__init__ over a store holding one of the registries.
Init ==
    /\ persons \in Registries
    /\ personSeq = Len(persons)
    /\ known_faces = LoadKnownFaces(persons)
    /\ cfg = DefaultCfg
    /\ InitRest
    /\ InitConn /\ InitWeb

SingleFrames == {<<e>> : e \in FrameFaces}

Frames == SingleFrames \cup {<<e, f>> : e \in FrameFaces, f \in FrameFaces}

\* The face a person's photograph shows.
FaceOf(name) == IF name = NameList[1] THEN 0 ELSE MaxEnc

\* The faces face_encodings finds in an upload for `name`.
Uploads(name) == {<<>>, <<FaceOf(name)>>, <<FaceOf(name), MaxEnc \div 2>>}

\* The environment of a send_notification call: whether the feed file can be
\* written, how the email call ends, how the Telegram call ends.
Envs == BOOLEAN \X Outcomes \X Outcomes

Benign == {<<TRUE, "ok", "ok">>}

\* One iteration of run's loop within a cooldown window: frames drawn from
\* `frames`, the notification channels answering as one of `envs`.
Camera(record, frames, envs) ==
    \/ \E faces \in frames : ProcessFrame(faces)
    \/ \E env \in envs : HandlePerson(record, env[1], env[2], env[3])

\* The loop process over time: the clock advancing by one of `steps`.
LoopStep(record, steps, frames, envs) ==
    \/ \E d \in steps : Tick(d)
    \/ Camera(record, frames, envs)

\* Person management requests, update_person's notes drawn from `notes`.
Crud(notes) ==
    \/ \E name \in Names \cup {""} : \E faces \in Uploads(name) : ApiAddPerson(name, faces, "")
    \/ \E id \in 1..MaxPersonSeq, name \in Names \cup {""}, n \in notes :
          ApiUpdatePerson(id, name, n)
    \/ \E id \in 1..MaxPersonSeq : ApiDeletePerson(id)

\* Identify requests, handled by the workers `R`.
Identify(R) ==
    \/ \E r \in R, uid \in 1..MaxLogged, name \in Names \cup {""} :
          IdentifyStart(r, uid, name, "")
    \/ \E r \in R, faceFound \in BOOLEAN : IdentifyAdd(r, faceFound)
    \/ \E r \in R : IdentifyMark(r)

\* The loop process alone, the history of its detections kept.
NextLoop == LoopStep(TRUE, Steps, Frames, Benign)

SpecLoop == Init /\ [][NextLoop]_vars

\* The loop process and the person management requests of the dashboard over
\* the shared store, within one cooldown window.
Next == Camera(FALSE, SingleFrames, Benign) \/ Crud({NoneStr, "vip"})

Spec == Init /\ [][Next]_vars

\* The same, over time, for a camera that sees the first registrant's face.
NextCount == LoopStep(TRUE, Steps, {<<FaceOf(NameList[1])>>}, Benign) \/ Crud({NoneStr})

SpecCount == Init /\ [][NextCount]_vars

\* The loop process and identify requests handled by one worker.
NextIdentify == Camera(FALSE, SingleFrames, Benign) \/ Identify({1})

SpecIdentify == Init /\ [][NextIdentify]_vars

\* The loop process, identify requests, and GET /api/stats.
NextStats ==
    \/ Camera(FALSE, SingleFrames, Benign)
    \/ Identify({1})
    \/ GetStatistics

SpecStats == Init /\ [][NextStats]_vars

\* process_frame over every list of known faces and every detected face.
InitMatch ==
    /\ \E n \in 0..Len(NameList) : \E e \in [1..n -> Encodings] :
          persons = [i \in 1..n |-> Row(NameList[i], e[i])]
    /\ personSeq = Len(persons)
    /\ known_faces = LoadKnownFaces(persons)
    /\ cfg = DefaultCfg
    /\ InitRest
    /\ InitConn /\ InitWeb

NextMatch == \E e \in Encodings : ProcessFrame(<<e>>)

SpecMatch == InitMatch /\ [][NextMatch]_vars

\* Notifier.__init__ over every configuration, then send_notification calls.
InitNotify ==
    /\ persons = <<>> /\ personSeq = 0
    /\ known_faces = <<>>
    /\ cfg \in Configs
    /\ InitRest
    /\ InitConn /\ InitWeb

NextNotify == \E title \in {"Unknown"}, env \in Envs : Send(title, env[1], env[2], env[3])

SpecNotify == InitNotify /\ [][NextNotify]_vars

\* A face that matches no registered person.
Stranger == MaxEnc \div 2

\* The loop seeing strangers, and identify requests handled concurrently by
\* every worker.
NextPromote == Camera(FALSE, {<<Stranger>>}, Benign) \/ Identify(Requests)

SpecPromote == Init /\ [][NextPromote]_vars

\* The loop, identify requests handled by one worker, and registrations.
NextDuplicate ==
    \/ Camera(FALSE, SingleFrames, Benign)
    \/ Identify({1})
    \/ \E name \in Names \cup {""} : \E faces \in Uploads(name) : ApiAddPerson(name, faces, "")

SpecDuplicate == Init /\ [][NextDuplicate]_vars

\* The loop with both outbound channels configured, their servers answering
\* or not.
InitChannels ==
    /\ persons \in Registries
    /\ personSeq = Len(persons)
    /\ known_faces = LoadKnownFaces(persons)
    /\ cfg = [DefaultCfg EXCEPT !.email_enabled = TRUE, !.email_creds = TRUE,
                                !.telegram_enabled = TRUE, !.telegram_creds = TRUE]
    /\ InitRest
    /\ InitConn /\ InitWeb

NextChannels == Camera(FALSE, SingleFrames, {TRUE} \X Answers \X Answers)

\* The loop goes on whenever it can: nothing but a call in progress holds it.
SpecChannels == InitChannels /\ [][NextChannels]_vars /\ WF_vars(NextChannels)

\* An idle store and notifier, for the specifications of the connector, the
\* main process and the configuration endpoint.
InitIdle ==
    /\ persons = <<>> /\ personSeq = 0
    /\ known_faces = <<>>
    /\ cfg = DefaultCfg
    /\ InitRest

\* DVRConnector.__init__ has called connect; run then calls get_frame.
InitDvr ==
    /\ InitIdle /\ InitWeb
    /\ dvr = ConnectCalled(NewDvr, "init")
    /\ proc = RunningProc

NextDvr ==
    \/ \E out \in AttemptOutcomes : DvrAttempt(out)
    \/ GetFrame
    \/ \E out \in ReadOutcomes : DvrRead(out)
    \/ \E out \in ReadOutcomes : DvrReread(out)

\* A call in progress goes on: connect sleeps 3 s and tries again, reads return.
SpecDvr == InitDvr /\ [][NextDvr]_vars /\ WF_vars(NextDvr)

\* main from its first line to the end of the process.
InitMain ==
    /\ InitIdle /\ InitWeb
    /\ dvr = NewDvr
    /\ proc = StartingProc

NextMain ==
    \/ \E configExists \in BOOLEAN : MainStart(configExists)
    \/ \E raises \in BOOLEAN : MainInitRest(raises)
    \/ NextDvr
    \/ \E kind \in {"Exception", "KeyboardInterrupt"} : IterationRaises(kind)
    \/ MainFinally
    \/ ReleaseAgain

SpecMain == InitMain /\ [][NextMain]_vars

\* The configuration endpoint over every stored document.
InitConfig ==
    /\ InitIdle /\ InitConn
    /\ config \in Docs
    /\ response = NoAnswer

NextConfig ==
    \/ GetConfig
    \/ \E data \in Docs : UpdateConfig(data)

SpecConfig == InitConfig /\ [][NextConfig]_vars

\* An enabled notifier through more events than its feed holds.
InitFeed == InitIdle /\ InitConn /\ InitWeb

NextFeed == \E fileOk \in BOOLEAN : NotifyEvent(fileOk)

SpecFeed == InitFeed /\ [][NextFeed]_vars

\* The loop process with the clock advancing by a second or by exactly the
\* cooldown window.
WindowSteps == {1, CooldownSeconds}

NextWindow == LoopStep(TRUE, WindowSteps, Frames, Benign)

SpecWindow == Init /\ [][NextWindow]_vars

\* ------------------------------------------------------------------ claims

Sum(f, S) ==
    LET RECURSIVE Acc(_)
        Acc(T) == IF T = {} THEN 0
                  ELSE LET x == CHOOSE y \in T : TRUE IN f[x] + Acc(T \ {x})
    IN  Acc(S)

Det == DOMAIN detections

Known(i) == detections[i].person_id # None

SameId(i, j) == detections[i].person_id = detections[j].person_id

Gap(i, j) == detections[j].time - detections[i].time

Notified(i) ==
    /\ detections[i].visits + detections[i].unknowns = 1
    /\ detections[i].notifications = 1

Suppressed(i) ==
    /\ detections[i].visits = 0 /\ detections[i].unknowns = 0
    /\ detections[i].notifications = 0

\* The history agrees with the store and the notifier: every Visit row,
\* sighting row and send_notification call is the doing of one detection.
HistoryAccounts ==
    /\ visitSeq = Sum([i \in Det |-> detections[i].visits], Det)
    /\ unknownSeq = Sum([i \in Det |-> detections[i].unknowns], Det)
    /\ sends = Sum([i \in Det |-> detections[i].notifications], Det)
    /\ Cardinality(DOMAIN visits) = visitSeq
    /\ Cardinality(DOMAIN unknown_visitors) = unknownSeq
    /\ \A i \in Det : Known(i) =>
          Cardinality({v \in DOMAIN visits : visits[v].person_id = detections[i].person_id})
            = Sum([j \in Det |-> IF SameId(i, j) THEN detections[j].visits ELSE 0], Det)

\* Two detections of one id less than the cooldown window apart produce at
\* most one Visit and one notification between them.
AtMostOneInWindow ==
    \A i \in Det, j \in Det :
        (i < j /\ Known(i) /\ SameId(i, j) /\ Gap(i, j) < CooldownSeconds)
            => /\ detections[i].visits + detections[j].visits <= 1
               /\ detections[i].notifications + detections[j].notifications <= 1

\* C1 as stated: within the loop, two detections of one person-id less than
\* the cooldown window (300 s) apart produce at most one Visit and one
\* notification between them, two detections more than the window apart each
\* produce one Visit and one notification, and the first detection of a
\* never-notified id produces a Visit and a notification.
C1_Original ==
    /\ HistoryAccounts
    /\ AtMostOneInWindow
    /\ \A i \in Det, j \in Det :
          (i < j /\ Known(i) /\ SameId(i, j) /\ Gap(i, j) > CooldownSeconds)
              => Notified(i) /\ Notified(j)
    /\ \A j \in Det :
          (Known(j) /\ ~\E i \in Det : i < j /\ SameId(i, j) /\ Notified(i)) => Notified(j)

\* The notified detections of detection j's id that came before it.
NotifiedBefore(j) == {i \in Det : i < j /\ SameId(i, j) /\ Notified(i)}

LastNotifiedBefore(j) == CHOOSE i \in NotifiedBefore(j) : \A k \in NotifiedBefore(j) : k <= i

\* C1 amended: two detections of one person-id less than the window apart
\* produce at most one Visit and one notification between them; a detection
\* produces exactly one Visit and one notification when it comes more than
\* the window after the last notified detection of its id, or when its id was
\* never notified, and produces neither otherwise (so of two detections more
\* than the window apart the earlier one may be a suppressed one).
C1_Cooldown ==
    /\ HistoryAccounts
    /\ AtMostOneInWindow
    /\ \A j \in Det : Known(j) =>
          IF NotifiedBefore(j) = {}
          THEN Notified(j)
          ELSE IF Gap(LastNotifiedBefore(j), j) > CooldownSeconds
          THEN Notified(j)
          ELSE Suppressed(j)

\* A notified detection, a suppressed one 10 s later, and a notified one more
\* than the window after both.
C1_Witness ==
    \E i \in Det, j \in Det, k \in Det :
        /\ i < j /\ j < k /\ Known(i) /\ SameId(i, j) /\ SameId(j, k)
        /\ Notified(i) /\ Suppressed(j) /\ Notified(k)
        /\ Gap(i, j) = 10 /\ Gap(j, k) > CooldownSeconds

\* C2: any two detections with no matched person-id less than the unknown
\* cooldown window (60 s) apart produce at most one UnidentifiedSighting and
\* at most one notification in total.
C2_UnknownBucket ==
    \A i \in Det, j \in Det :
        (i < j /\ ~Known(i) /\ ~Known(j) /\ Gap(i, j) < UnknownCooldownSeconds)
            => /\ detections[i].unknowns + detections[j].unknowns <= 1
               /\ detections[i].notifications + detections[j].notifications <= 1

\* No two Person rows have the same name.
NamesUnique ==
    \A p \in DOMAIN persons, q \in DOMAIN persons :
        persons[p].name = persons[q].name => p = q

\* Another Person row than `self` holds `name`.
HeldByAnother(name, self) ==
    \E p \in DOMAIN persons : p # self /\ persons[p].name = name

\* C3: after any sequence of add_person, update_person and delete_person
\* calls no two Person rows have the same name; an add_person, or a renaming
\* update_person of an existing Person, whose name is that of another Person
\* returns failure and leaves every table of the store unchanged.
C3_NameUniqueness ==
    /\ []NamesUnique
    /\ [][ /\ \A name \in Names : \A faces \in Uploads(name) \ {<<>>} :
                (ApiAddPerson(name, faces, "") /\ HeldByAnother(name, None))
                    => (lastOp' = Op("add_person", FALSE, 500) /\ UNCHANGED storeVars)
           /\ \A id \in DOMAIN persons, name \in Names, n \in {NoneStr, "vip"} :
                (ApiUpdatePerson(id, name, n) /\ HeldByAnother(name, id))
                    => (lastOp' = Op("update_person", FALSE, 500) /\ UNCHANGED storeVars)
         ]_vars

\* A refused request was answered while two Persons are registered.
C3_Witness ==
    /\ ~lastOp.ok /\ lastOp.status = 500
    /\ lastOp.op \in {"add_person", "update_person"}
    /\ Cardinality(DOMAIN persons) = 2

\* C4: delete_person(p) removes the Person p and exactly the Visits whose
\* person_id is p: afterwards no Visit references p, and every Visit of
\* another Person, every other Person and every UnidentifiedSighting row is
\* as it was.
C4_DeleteFrame ==
    [][ \A id \in 1..MaxPersonSeq : ApiDeletePerson(id) =>
          /\ id \notin DOMAIN persons'
          /\ \A v \in DOMAIN visits' : visits'[v].person_id # id
          /\ DOMAIN visits' \subseteq DOMAIN visits
          /\ \A v \in DOMAIN visits : visits[v].person_id # id =>
                (v \in DOMAIN visits' /\ visits'[v] = visits[v])
          /\ DOMAIN persons' = DOMAIN persons \ {id}
          /\ \A p \in DOMAIN persons' : persons'[p] = persons[p]
          /\ UNCHANGED <<unknown_visitors, unknownSeq, visitSeq, personSeq>>
      ]_vars

\* A delete request has removed one Person with its Visit and left the other
\* Person with its Visit.
C4_Witness ==
    /\ lastOp.op = "delete_person"
    /\ visitSeq = 2 /\ Cardinality(DOMAIN visits) = 1
    /\ Cardinality(DOMAIN persons) = 1
    /\ \A v \in DOMAIN visits : visits[v].person_id \in DOMAIN persons

\* C5: in every reachable state of the loop running with the dashboard's
\* person management requests, every Visit row references a Person row that
\* exists.
C5_VisitsReferencePersons ==
    \A v \in DOMAIN visits : visits[v].person_id \in DOMAIN persons

\* C6: no reachable state has the Person created by an identify request
\* present while the sighting it promotes is still unresolved.
C6_AtomicPromotion ==
    \A r \in Requests :
        (reqs[r].person_id # None /\ reqs[r].person_id \in DOMAIN persons)
            => /\ unknown_visitors[reqs[r].unknown_id].identified
               /\ unknown_visitors[reqs[r].unknown_id].identified_as = reqs[r].person_id

\* The distances from a detected embedding to the known entries.
Distances(enc) == {FaceDistance(known_faces[k].encoding, enc) : k \in DOMAIN known_faces}

Nearest(enc) == CHOOSE d \in Distances(enc) : \A e \in Distances(enc) : d <= e

\* C7: a detected embedding is given the name and id of a known entry at the
\* least distance d if and only if d <= tolerance; when the nearest entry is
\* farther than the tolerance, or no entry is known, the detection is
\* "Unknown" with person_id None and confidence 0.
C7_MatchingPolicy ==
    \A i \in DOMAIN pending :
        LET rec == pending[i]
            enc == rec.image
        IN  IF known_faces # <<>> /\ Nearest(enc) <= Tolerance
            THEN \E k \in DOMAIN known_faces :
                    /\ FaceDistance(known_faces[k].encoding, enc) = Nearest(enc)
                    /\ rec.name = known_faces[k].name
                    /\ rec.person_id = known_faces[k].id
                    /\ rec.person_id # None
            ELSE /\ rec.name = "Unknown"
                 /\ rec.person_id = None
                 /\ rec.confidence = 0

\* A face exactly at the tolerance from the nearer of several known entries
\* was matched to it.
C7_Witness ==
    /\ Len(known_faces) >= 2
    /\ \E i \in DOMAIN pending :
          /\ pending[i].person_id # None
          /\ Nearest(pending[i].image) = Tolerance
          /\ \E k \in DOMAIN known_faces :
                FaceDistance(known_faces[k].encoding, pending[i].image) > Tolerance

\* The Persons with the greatest visit_count.
MostVisited ==
    {p \in DOMAIN persons : \A q \in DOMAIN persons :
        persons[p].visit_count >= persons[q].visit_count}

\* The answer held in stats is the one C8 states for the store.
StatsAsClaimed ==
    /\ stats.total_persons = Cardinality(DOMAIN persons)
    /\ stats.total_visits = Cardinality(DOMAIN visits)
    /\ stats.unknown_visitors =
          Cardinality({u \in DOMAIN unknown_visitors : ~unknown_visitors[u].identified})
    /\ IF DOMAIN persons = {}
       THEN stats.most_frequent_visitor = [name |-> NoneStr, count |-> 0]
       ELSE \E p \in MostVisited :
              /\ \A q \in MostVisited : p <= q
              /\ stats.most_frequent_visitor =
                    [name |-> persons[p].name, count |-> persons[p].visit_count]

VisitsOf(p) == {v \in DOMAIN visits : visits[v].person_id = p}

CounterConsistent ==
    \A p \in DOMAIN persons : persons[p].visit_count = Cardinality(VisitsOf(p))

\* C9: every existing Person's visit_count equals the number of Visit rows
\* whose person_id is that Person, and each log_visit inserts exactly one
\* Visit and increments the owning Person's visit_count by exactly 1 in the
\* same step.
C9_CounterConsistency ==
    /\ []CounterConsistent
    /\ [][ visitSeq' # visitSeq =>
             /\ visitSeq' = visitSeq + 1
             /\ DOMAIN visits' = DOMAIN visits \cup {visitSeq'}
             /\ \A v \in DOMAIN visits : visits'[v] = visits[v]
             /\ LET owner == visits'[visitSeq'].person_id
                IN  /\ owner \in DOMAIN persons =>
                          persons'[owner].visit_count = persons[owner].visit_count + 1
                    /\ \A p \in DOMAIN persons \ {owner} : persons'[p] = persons[p]
                    /\ DOMAIN persons' = DOMAIN persons
         ]_vars

\* Registered, detected, detected 10 s later, detected 301 s after that: two
\* Visits and visit_count = 2.
C9_Witness ==
    /\ Len(detections) = 3
    /\ \A i \in Det : detections[i].person_id = 1
    /\ Notified(1) /\ Suppressed(2) /\ Notified(3)
    /\ Gap(1, 2) = 10 /\ Gap(2, 3) = CooldownSeconds + 1
    /\ 1 \in DOMAIN persons
    /\ persons[1].visit_count = 2
    /\ Cardinality(VisitsOf(1)) = 2

\* C10: a failure of the email channel, of the Telegram channel or of the
\* write of the feed file never raises to the caller of send_notification,
\* is never retried, and does not keep the remaining channels of the same
\* call from being attempted.
C10_FailuresContained ==
    sends > 0 =>
        /\ ~lastSend.raised
        /\ lastSend.emailAttempts <= 1
        /\ lastSend.telegramAttempts <= 1
        /\ cfg.enabled =>
              /\ lastSend.stored
              /\ (cfg.email_enabled /\ cfg.email_creds) => lastSend.emailAttempts = 1
              /\ (cfg.telegram_enabled /\ cfg.telegram_creds) => lastSend.telegramAttempts = 1

\* One call in which the feed file could not be written, the email call
\* raised and the Telegram call was answered with an error status.
C10_Witness ==
    /\ sends > 0
    /\ lastSend.fileFailed
    /\ lastSend.emailOut = "exception" /\ lastSend.emailAttempts = 1
    /\ lastSend.telegramOut = "http_error" /\ lastSend.telegramAttempts = 1
    /\ ~lastSend.raised

\* C11: every call of send_notification, whatever the enabled, email.enabled
\* and telegram.enabled toggles, emits the console notification and records
\* the event in the recent-notifications feed.
C11_FanOut == sends > 0 => (lastSend.console /\ lastSend.stored)

Min(a, b) == IF a < b THEN a ELSE b

\* C12: web_notifications never holds more than max_web_notifications
\* entries; after n events it holds the latest min(n, 100) of them, newest
\* first; and the document written to the feed file after an event is the
\* feed in memory at that moment.
C12_BoundedFeed ==
    /\ Len(web_notifications) <= MaxWebNotifications
    /\ Len(web_notifications) = Min(sends, MaxWebNotifications)
    /\ \A i \in 1..Len(web_notifications) : web_notifications[i].title = sends - i + 1
    /\ (sends > 0 /\ lastSend.written) => feedFile = web_notifications

\* The feed is full, the oldest events have been evicted, and the file
\* written after the latest event holds the feed.
C12_Witness ==
    /\ sends > MaxWebNotifications
    /\ Len(web_notifications) = MaxWebNotifications
    /\ web_notifications[1].title = sends
    /\ web_notifications[MaxWebNotifications].title = sends - MaxWebNotifications + 1
    /\ lastSend.written /\ feedFile = web_notifications

\* C13: a call of connect makes at most max_reconnect_attempts attempts,
\* returns True at its first successful attempt and False otherwise; every
\* call of get_frame comes to an end, with a frame or None.
C13_BoundedReconnect ==
    /\ [](dvr.tries <= MaxReconnectAttempts)
    /\ [][ \A out \in AttemptOutcomes : DvrAttempt(out) =>
             /\ (out = "ok") => dvr'.result = "True"
             /\ (out # "ok") => dvr'.result \in {"none", "False"}
             /\ (dvr'.result = "none") =>
                   (dvr'.pc = "connect" /\ dvr'.tries < MaxReconnectAttempts)
         ]_vars
    /\ []((dvr.pc = "idle" /\ dvr.calls > 0) => dvr.ret \in {"frame", "None"})
    /\ (dvr.pc # "idle") ~> (dvr.pc = "idle")

\* get_frame gave up with None after a connect call of five failed attempts.
C13_Witness ==
    /\ dvr.pc = "idle" /\ dvr.calls > 0
    /\ dvr.tries = MaxReconnectAttempts
    /\ dvr.result = "False"
    /\ dvr.ret = "None"

\* C14: run leaves its loop only on shutdown (KeyboardInterrupt); any other
\* exception raised inside an iteration is caught and the loop goes on to the
\* next iteration with running still True.
C14_LoopSurvival ==
    [][ /\ (proc.pc = "loop" /\ proc'.pc # "loop") =>
              (proc'.pc = "left" /\ proc'.exit = "KeyboardInterrupt")
        /\ IterationRaises("Exception") =>
              (proc'.pc = "loop" /\ proc'.running /\ proc'.caught = proc.caught + 1)
        /\ (proc.pc = "loop" /\ dvr'.ret = "None") => proc'.pc = "loop"
      ]_vars

\* An exception was caught and the loop has gone on to call get_frame again.
C14_Witness ==
    /\ proc.pc = "loop" /\ proc.running
    /\ proc.caught > 0
    /\ dvr.pc # "idle"

SecretsOf(doc) == {doc[q] : q \in DOMAIN doc \cap SecretPaths}

\* Two documents that differ at most in their secret values.
SameButSecrets(c, d) ==
    /\ DOMAIN c = DOMAIN d
    /\ \A q \in DOMAIN c \ SecretPaths : c[q] = d[q]

\* C16: the answer of GET /api/config holds none of the stored document's
\* secret values (it is the same for every choice of these values), and the
\* read leaves the stored document as it was.
C16_SecretRedaction ==
    [][ GetConfig =>
          /\ config' = config
          /\ response'.status = 200
          /\ \A q \in DOMAIN response'.body : response'.body[q] \notin SecretsOf(config)
          /\ \A c \in Docs : SameButSecrets(c, config) => Redact(c) = response'.body
      ]_vars

\* A document holding all three secrets was read: the answer is its public
\* part.
C16_Witness ==
    /\ SecretPaths \subseteq DOMAIN config
    /\ PublicPaths \subseteq DOMAIN config
    /\ response.status = 200
    /\ DOMAIN response.body = PublicPaths
    /\ \A q \in PublicPaths : response.body[q] = config[q]

\* C17: a POST /api/person whose upload shows no face, or two or more faces,
\* is rejected with a 4xx error and creates no Person.
C17_ExactlyOneFace ==
    [][ \A name \in Names : \A faces \in Uploads(name) :
          (ApiAddPerson(name, faces, "") /\ Len(faces) # 1)
              => (lastOp' = Op("add_person", FALSE, 400) /\ persons' = persons)
      ]_vars

\* C18: two identify requests for one sighting do not both create a Person:
\* when a request for a sighting has created a Person, no other request of
\* the same sighting has created one.
C18_OneShotPromotion ==
    \A r \in Requests, q \in Requests :
        (r # q /\ reqs[r].unknown_id = reqs[q].unknown_id /\ reqs[r].person_id # None)
            => reqs[q].person_id = None

\* C19: whenever the loop is handling a detection (and so may be inside
\* send_notification), it eventually is done with the frame and fetches the
\* next one.
C19_NeverBlocks == (pending # <<>>) ~> (pending = <<>>)

\* C20: an identify request, or a registration, whose name is held by an
\* existing Person reports an error, leaves the Person rows as they were and
\* leaves the sighting unresolved (identified = 0, identified_as null).
C20_NoPartialState ==
    [][ /\ \A r \in Requests :
              (IdentifyAdd(r, TRUE) /\ HeldByAnother(reqs[r].name, None))
                  => /\ reqs'[r].pc = "done" /\ reqs'[r].status = 500
                     /\ persons' = persons
                     /\ unknown_visitors' = unknown_visitors
                     /\ ~unknown_visitors'[reqs[r].unknown_id].identified
                     /\ unknown_visitors'[reqs[r].unknown_id].identified_as = None
        /\ \A name \in Names : \A faces \in Uploads(name) \ {<<>>} :
              (ApiAddPerson(name, faces, "") /\ HeldByAnother(name, None))
                  => /\ lastOp' = Op("add_person", FALSE, 500)
                     /\ persons' = persons
                     /\ unknown_visitors' = unknown_visitors
      ]_vars

\* An identify request was refused for its name, its sighting still
\* unresolved.
C20_Witness ==
    \E r \in Requests :
        /\ reqs[r].pc = "done" /\ reqs[r].status = 500
        /\ reqs[r].unknown_id \in DOMAIN unknown_visitors
        /\ ~unknown_visitors[reqs[r].unknown_id].identified
        /\ lastOp = Op("add_person", FALSE, 500)
        /\ \E p \in DOMAIN persons : persons[p].name = reqs[r].name

\* The value returned by the should_notify call of the step being taken, as
\* run recorded it.
Returned == detections'[Len(detections')].notifications = 1

\* C21: last_seen[id] changes only in a should_notify(id) call that returns
\* True, which sets it to the time of the call; a suppressed detection leaves
\* last_seen as it was; a call for one id never changes or adds the entry of
\* another id; a call with person_id None never changes last_seen; and a
\* detection at most cooldown_seconds (so also exactly cooldown_seconds) after
\* the last notified one of its id is suppressed.
C21_FixedWindow ==
    [][ /\ pending = <<>> => last_seen' = last_seen
        /\ pending # <<>> =>
              LET id == Head(pending).person_id
              IN  /\ DOMAIN last_seen' \subseteq DOMAIN last_seen \cup {id}
                  /\ \A k \in DOMAIN last_seen :
                        k # id => k \in DOMAIN last_seen' /\ last_seen'[k] = last_seen[k]
                  /\ id = None => last_seen' = last_seen
                  /\ ~Returned => last_seen' = last_seen
                  /\ (id # None /\ Returned) =>
                        id \in DOMAIN last_seen' /\ last_seen'[id] = now
                  /\ (id \in DOMAIN last_seen /\ now - last_seen[id] <= CooldownSeconds)
                        => ~Returned
      ]_vars

\* A person notified, then detected again exactly cooldown_seconds later and
\* suppressed, the entry still the time of the notified detection, and a
\* stranger handled after that.
C21_Witness ==
    \E i \in Det, j \in Det, k \in Det :
        /\ i < j /\ j < k /\ Known(i) /\ SameId(i, j) /\ ~Known(k)
        /\ Notified(i) /\ Suppressed(j) /\ Notified(k)
        /\ Gap(i, j) = CooldownSeconds
        /\ last_seen[detections[i].person_id] = detections[i].time

\* connect has given up at some time and no attempt has succeeded since.
GaveUp(d) == d.reconnect_attempts >= MaxReconnectAttempts

\* C22: reconnect_attempts is set back to 0 only by a successful connection
\* attempt and never decreases otherwise; once a connect call has given up
\* (the counter has reached max_reconnect_attempts) every later connect call
\* makes exactly one attempt: if that attempt fails the call returns False
\* at once, without a retry, and the counter stays at or above the maximum;
\* if it succeeds the call returns True and the counter is 0 again.
C22_CounterLifecycle ==
    /\ []((GaveUp(dvr) /\ dvr.pc = "connect") => dvr.tries = 0)
    /\ [][ /\ dvr'.reconnect_attempts < dvr.reconnect_attempts =>
                  /\ DvrAttempt("ok")
                  /\ dvr'.reconnect_attempts = 0 /\ dvr'.result = "True"
            /\ \A out \in AttemptOutcomes : (GaveUp(dvr) /\ DvrAttempt(out)) =>
                  /\ dvr'.pc # "connect"
                  /\ dvr'.tries = 1
                  /\ IF out = "ok"
                     THEN dvr'.result = "True" /\ dvr'.reconnect_attempts = 0
                     ELSE dvr'.result = "False" /\ GaveUp(dvr')
          ]_vars

\* After connect gave up, two later get_frame calls each made one attempt
\* that failed, and returned None.
C22_Witness ==
    /\ dvr.pc = "idle" /\ dvr.calls >= 2
    /\ dvr.reconnect_attempts = MaxReconnectAttempts + 2
    /\ dvr.tries = 1
    /\ dvr.result = "False"
    /\ dvr.ret = "None"

\* C23: update_person and delete_person called with a person_id that matches
\* no Person row return True, the PUT and DELETE endpoints answer success,
\* and every table is left unchanged; update_person with an empty or None
\* name and notes None changes nothing for an existing Person either.
C23_MissingPersonNoEffect ==
    [][ /\ \A id \in 1..MaxPersonSeq, name \in Names \cup {""}, n \in {NoneStr, "vip"} :
              (ApiUpdatePerson(id, name, n) /\ id \notin DOMAIN persons) =>
                  (lastOp' = Op("update_person", TRUE, 200) /\ UNCHANGED storeVars)
        /\ \A id \in 1..MaxPersonSeq :
              (ApiDeletePerson(id) /\ id \notin DOMAIN persons) =>
                  (lastOp' = Op("delete_person", TRUE, 200) /\ UNCHANGED storeVars)
        /\ \A id \in DOMAIN persons :
              ApiUpdatePerson(id, "", NoneStr) =>
                  (lastOp' = Op("update_person", TRUE, 200) /\ UNCHANGED storeVars)
      ]_vars

====
